---- MODULE Spec2Model ----
(***************************************************************************)
(* Model of the lazy, paginated, hierarchical row store of datagrid_gtk3:  *)
(* db.Node, db.sqlite.SQLiteDataSource.load / _load_tree_rows and          *)
(* ui.grid.DataGridModel (refresh, add_rows, get_iter, iter_rows,          *)
(* get_row_by_id).                                                         *)
(*                                                                         *)
(* A table row is identified by its primary key 1..n; NULL is 0.  A Node   *)
(* is a record with the row (data), children_len, path and the list of     *)
(* child Nodes (kids); len(node) is Len(node.kids).  A Node object is      *)
(* identified by its position in the model's tree (the 0-based index       *)
(* chain leading to it), which never changes between two refreshes since   *)
(* children are only ever appended.                                        *)
(***************************************************************************)
EXTENDS Integers, Sequences, FiniteSets, TLC

\* Largest number of rows of the table.
NRows == 4
\* SQLiteDataSource.MAX_RECS, the page size, scaled down as the tests do.
MAX_RECS == 2
\* Largest 'page' a direct caller of load() passes.
MaxPage == 2
\* Largest number of Nodes the model's tree may hold below self.rows.
MaxNodes == 5
\* Longest path handed to get_iter, and the largest index in it.
MaxDepth == 3
MaxIndex == 1

\* NULL is the SQL NULL of an id column.  Python's None is None in the
\* integer attributes and the absent keys of a params dict, NoPath in
\* Node.path and NoNode where a Node is expected.
NULL == 0
None == 0 - 1
NoPath == <<None>>
NoNode == [data |-> None, children_len |-> 0, path |-> NoPath, kids |-> <<>>]

VARIABLES
    table,               \* the rows of the SQLite table, by primary key
    PARENT_ID_COLUMN,    \* TRUE iff the data source class names a parent column
    CHILDREN_LEN_COLUMN, \* TRUE iff it names a stored children count column
    total_recs,          \* SQLiteDataSource.total_recs
    active_params,       \* DataGridModel.active_params
    rows,                \* DataGridModel.rows (None before the first refresh)
    row_id_mapper,       \* DataGridModel.row_id_mapper: row id -> Node
    model_total_recs,    \* DataGridModel.total_recs
    call,                \* the last call made and what it returned
    ret,                 \* the Node returned by the last direct load()
    queries,             \* the queries the last load() executed
    paging,              \* the current run of load() calls over pages 0, 1, ...
    _DBS,                \* SQLiteDataSource._DBS: the live instances
    bound,               \* per instance, its (db_file, table.name)
    store,               \* per (db_file, table), the updated column by row id
    signals,             \* per instance, the 'rows-changed' the last update emitted on it
    _lock,               \* ImageCacheManager._lock: the thread holding it
    _cache,              \* ImageCacheManager._cache: params -> pixbuf
    _placeholders,       \* ImageCacheManager._placeholders
    _mru,                \* ImageCacheManager._mru: deque, most recent last
    _waiting,            \* ImageCacheManager._waiting
    _queue,              \* ImageCacheManager._queue: LIFO, top last
    caller,              \* the get_image call of the main thread
    previous,            \* the get_image call completed before it
    _task,               \* the thread running _transform_task
    image_loaded,        \* parity of the 'image-loaded' emissions scheduled
    unlocked,            \* the mutations made by a thread not holding _lock
    applied,             \* the last transformer applied, its value and outcome
    search_table,        \* SQLiteDataSource.search_table is not None
    search_index         \* the table <name>_search exists in the database

\* The state of the data sources that share database files.
dbvars == <<_DBS, bound, store, signals>>

\* What the model of the grid leaves alone.
\* The state of the image cache manager and of its two threads.
imgvars == <<_lock, _cache, _placeholders, _mru, _waiting, _queue, caller,
             previous, _task, image_loaded, unlocked>>

\* The state of the transformer calls.
tsvars == <<applied>>

\* The full-text search index of the data source.
ftsvars == <<search_table, search_index>>

extvars == <<dbvars, imgvars, tsvars, ftsvars>>

vars == <<table, PARENT_ID_COLUMN, CHILDREN_LEN_COLUMN, total_recs,
          active_params, rows, row_id_mapper, model_total_recs, call, ret,
          queries, paging, extvars>>

dsvars == <<table, PARENT_ID_COLUMN, CHILDREN_LEN_COLUMN>>

----------------------------------------------------------------------------
(* Helpers *)

Min(a, b) == IF a <= b THEN a ELSE b

RECURSIVE SortedSeq(_)
SortedSeq(S) ==
    IF S = {} THEN <<>>
    ELSE LET m == CHOOSE x \in S : \A y \in S : x <= y
         IN  <<m>> \o SortedSeq(S \ {m})

Range(s) == {s[i] : i \in DOMAIN s}

Ids == 1..Len(table)

\* The rows whose parent column references row p (p = NULL: no parent).
ChildrenOf(p) == {i \in Ids : table[i].parent = p}

----------------------------------------------------------------------------
(* db.Node *)

Node(data, children_len) ==
    [data |-> data, children_len |-> children_len, path |-> NoPath,
     kids |-> <<>>]

is_children_loaded(node) == Len(node.kids) = node.children_len

----------------------------------------------------------------------------
(* SQLiteDataSource: WHERE clauses.  A 'where' dict holds at most one     *)
(* entry, on the id column: None, or [operator, param].                   *)

NoWhere == [operator |-> "None", param |-> <<>>]

_OPERATOR_MAPPER(op, a, b) ==
    CASE op = "is" -> a = b
      [] op = "="  -> a = b
      [] op = "!=" -> a # b
      [] op = "<"  -> a < b
      [] op = "<=" -> a <= b
      [] op = ">"  -> a > b
      [] op = ">=" -> a >= b

\* The rows a compiled where clause selects.
_get_where_clause(where) ==
    IF where.operator = "range"
    THEN {i \in Ids : where.param[1] <= i /\ i <= where.param[2]}
    ELSE {i \in Ids : _OPERATOR_MAPPER(where.operator, i, where.param[1])}

\* select(): the selected rows in ORDER BY order, cut by LIMIT and OFFSET.
select(whereset, limit, offset) ==
    LET all == SortedSeq(whereset)
    IN  SubSeq(all, offset + 1, Min(Len(all), offset + limit))

----------------------------------------------------------------------------
(* SQLiteDataSource._load_tree_rows *)

\* The bookkeeping of the filtered branch: children (parent id -> list of
\* Nodes waiting for that parent), node_mapper (the rows that have a Node),
\* and per row the Node's own child list and children_len.
TreeLoadInit ==
    [children |-> <<>>, node_mapper |-> {},
     kids |-> [i \in Ids |-> <<>>], children_len |-> [i \in Ids |-> 0],
     selects |-> 0, diverged |-> FALSE]

\* a load_rows that reads NULL in the parent column of every row
tree_load_rows_as_roots(st, whereset) ==
    LET IsNew(r) == r \notin st.node_mapper
        fresh == SelectSeq(SortedSeq(whereset), IsNew)
    IN  [st EXCEPT !.children =
                       [p \in DOMAIN @ \cup {NULL} |->
                           IF p = NULL
                           THEN (IF NULL \in DOMAIN @ THEN @[NULL] ELSE <<>>)
                                    \o fresh
                           ELSE @[p]],
                   !.node_mapper = @ \cup Range(fresh),
                   !.selects = @ + 1]

\* load_rows(where_): one SELECT; every row not seen before becomes a Node
\* appended to the list kept under its parent's id.
tree_load_rows(st, whereset) ==
    LET IsNew(r) == r \notin st.node_mapper
        fresh == SelectSeq(SortedSeq(whereset), IsNew)
        keys == DOMAIN st.children \cup {table[r].parent : r \in Range(fresh)}
        c_list(p) ==
            LET Under(r) == table[r].parent = p
            IN  (IF p \in DOMAIN st.children THEN st.children[p] ELSE <<>>)
                    \o SelectSeq(fresh, Under)
    IN  [st EXCEPT !.children = [p \in keys |-> c_list(p)],
                   !.node_mapper = @ \cup Range(fresh),
                   !.selects = @ + 1]

\* a count of the last extension only: len(c_list)
last_extension_len(node_kids, c_list) == Len(c_list)

\* node.children_len = len(node), after node.extend(c_list)
extended_children_len(node_kids, c_list) == Len(node_kids)

\* One pass of "for parent, c_list in children.items()" and the query for
\* the parents that have no Node yet.
resolve_round(st) ==
    LET pending == DOMAIN st.children \ {NULL}
        found == pending \cap st.node_mapper
        parents_to_load == pending \ st.node_mapper
        kids1 == [i \in Ids |-> IF i \in found
                                THEN st.kids[i] \o st.children[i]
                                ELSE st.kids[i]]
        len1 == [i \in Ids |->
                    IF i \in found
                    THEN extended_children_len(kids1[i], st.children[i])
                    ELSE st.children_len[i]]
        st1 == [st EXCEPT !.kids = kids1, !.children_len = len1,
                          !.children = [p \in DOMAIN @ \ found |-> @[p]]]
    IN  IF parents_to_load # {}
        THEN tree_load_rows(st1, parents_to_load \cap Ids)
        ELSE st1

\* while children.keys() != [None]: ...   (fuel bounds the unrolling)
RECURSIVE resolve_parents(_, _)
resolve_parents(st, fuel) ==
    IF DOMAIN st.children = {NULL} THEN st
    ELSE IF fuel = 0 THEN [st EXCEPT !.diverged = TRUE]
    ELSE resolve_parents(resolve_round(st), fuel - 1)

\* The Node object of row r with everything attached below it.
RECURSIVE tree_node(_, _)
tree_node(st, r) ==
    [data |-> r, children_len |-> st.children_len[r], path |-> NoPath,
     kids |-> [k \in 1..Len(st.kids[r]) |-> tree_node(st, st.kids[r][k])]]

\* The branch taken when a where clause is given.
load_tree_filtered(whereset) ==
    LET st0 == tree_load_rows(TreeLoadInit, whereset)
        st == resolve_parents(st0, 2 * NRows + 2)
    IN  IF DOMAIN st0.children = {}
        THEN [nodes |-> <<>>, selects |-> st0.selects, diverged |-> FALSE]
        ELSE [nodes |-> IF st.diverged THEN <<>>
                        ELSE [k \in 1..Len(st.children[NULL]) |->
                                 tree_node(st, st.children[NULL][k])],
              selects |-> st.selects, diverged |-> st.diverged]

\* The children count of row r: the stored column, or the COUNT subquery.
row_children_len(r) ==
    IF CHILDREN_LEN_COLUMN THEN table[r].children_len
    ELSE Cardinality(ChildrenOf(r))

\* a lazy branch that ignores parent_id and selects the top-level rows
load_tree_lazy_top(parent_id) ==
    LET q == SortedSeq(ChildrenOf(NULL))
    IN  [nodes |-> [k \in 1..Len(q) |-> Node(q[k], row_children_len(q[k]))],
         selects |-> 1, diverged |-> FALSE]

\* The branch taken without a where clause: the direct children of parent_id.
load_tree_lazy(parent_id) ==
    LET q == SortedSeq(ChildrenOf(parent_id))
    IN  [nodes |-> [k \in 1..Len(q) |-> Node(q[k], row_children_len(q[k]))],
         selects |-> 1, diverged |-> FALSE]

_load_tree_rows(where, parent_id) ==
    IF where # NoWhere
    THEN load_tree_filtered(_get_where_clause(where))
    ELSE load_tree_lazy(parent_id)

----------------------------------------------------------------------------
(* SQLiteDataSource.load *)

NoQueries == [count |-> FALSE, select |-> 0]

\* if page > 0 and offset >= self.total_recs: return rows
never_all_pages_loaded(page, offset, total) == FALSE
all_pages_loaded(page, offset, total) == page > 0 /\ offset >= total

\* if page == 0: self.total_recs = COUNT
every_page_counts(page) == TRUE
counts_records(page) == page = 0

\* params: [where, page, parent_id, flat]; page and parent_id are None when
\* the key is absent.  Returns the root Node, the new total_recs and the
\* queries executed.
load(params, total) ==
    LET where == IF params.where # NoWhere
                 THEN _get_where_clause(params.where) ELSE Ids
        page == IF params.page = None THEN 0 ELSE params.page
        offset == page * MAX_RECS
        flat == params.flat
        flat_where == {i \in Ids : table[i].flat}
        where2 == IF flat THEN where \cap flat_where ELSE where
        total2 == IF counts_records(page) THEN Cardinality(where2) ELSE total
        parent_id == IF params.parent_id = None THEN NULL ELSE params.parent_id
        tree == _load_tree_rows(params.where, parent_id)
        page_rows == select(where2, MAX_RECS, offset)
        nodes == IF PARENT_ID_COLUMN /\ ~flat THEN tree.nodes
                 ELSE [k \in 1..Len(page_rows) |-> Node(page_rows[k], 0)]
        nsel == IF PARENT_ID_COLUMN /\ ~flat THEN tree.selects ELSE 1
    IN  IF all_pages_loaded(page, offset, total)
        THEN [rows |-> Node(NULL, 0), total_recs |-> total, queries |-> NoQueries]
        ELSE [rows |-> [data |-> NULL, children_len |-> Len(nodes),
                        path |-> NoPath, kids |-> nodes],
              total_recs |-> total2,
              queries |-> [count |-> counts_records(page), select |-> nsel]]

----------------------------------------------------------------------------
(* The tables and the data source classes of the repository *)

\* Parent columns that make the table a forest in which a parent's id is
\* smaller than the ids of its children.
ParentMaps(n) == {p \in [1..n -> 0..n] : \A i \in 1..n : p[i] < i}

\* The 'files' table of a data source class with parent and flat columns:
\* tests._FilesDataSource (stored == TRUE) keeps a children_len column and
\* gives every row a flat name; examples.FileBrowserDataSource counts the
\* children with a subquery and gives a flat name to the files only.
FilesTable(n, p, stored) ==
    [i \in 1..n |->
        LET nkids == Cardinality({j \in 1..n : p[j] = i})
        IN  [parent |-> p[i],
             flat |-> stored \/ nkids = 0,
             children_len |-> IF stored THEN nkids ELSE 0]]

\* A table of a plain SQLiteDataSource: no parent, flat or children column.
PlainTable(n) ==
    [i \in 1..n |-> [parent |-> NULL, flat |-> FALSE, children_len |-> 0]]

WhereOps == {"!=", ">="}

Wheres ==
    {NoWhere} \cup {[operator |-> op, param |-> <<v>>] :
                        op \in WhereOps, v \in 1..NRows}

\* The filters used when paging.
ViewWheres ==
    {NoWhere} \cup {[operator |-> ">=", param |-> <<v>>] : v \in 1..NRows}

NoPaging ==
    [active |-> FALSE, where |-> NoWhere, flat |-> FALSE, next |-> 0,
     sum |-> 0, maxlen |-> 0, late |-> {}, done |-> FALSE]

NoCall == [op |-> "None"]

\* Largest number of SQLiteDataSource instances, and of rows of a table
\* they update.
MaxDbs == 3
MaxUpdRows == 1

DbIds == 1..MaxDbs
DbFiles == {"a.db", "b.db"}
DbTables == {"t", "u"}
Tables == [db_file : DbFiles, table : DbTables]
Unbound == [db_file |-> "", table |-> ""]

\* No data source instance was created yet.
DbInit ==
    /\ _DBS = {}
    /\ bound = [i \in DbIds |-> Unbound]
    /\ store = [t \in Tables |-> [r \in 1..MaxUpdRows |-> 0]]
    /\ signals = [i \in DbIds |-> <<>>]

\* MAX_CACHE_SIZE, the maxlen of the deque _mru (200 in the source).
MAX_CACHE_SIZE == 2

\* The most jobs the queue holds before a new get_image call is made.
MaxQueue == 2

\* params = (path, size, fill_image, draw_border, draft)
Param(path, size) == <<path, size, TRUE, FALSE, FALSE>>

\* The images asked for: a picture, a file that is no picture, and the
\* theme's icon for pictures itself.
Keys ==
    {Param("a.png", 24), Param("c.txt", 64),
     Param("image-x-generic.png", 24)}

\* pixbuf = None
NoPixbuf == [image |-> "", size |-> 0]

NoParams == Param("", 0)

\* mimetypes.guess_type(filename)[0] or 'unknown/unknown'
guess_type(filename) ==
    IF filename \in {"a.png", "image-x-generic.png"}
    THEN "image/png"
    ELSE IF filename = "c.txt" THEN "text/plain" ELSE "unknown/unknown"

\* get_icon_for_file(filename, size): the path of the theme's icon for the
\* guessed media type.
get_icon_for_file(filename, size) ==
    IF guess_type(filename) = "image/png" THEN "image-x-generic.png"
    ELSE IF guess_type(filename) = "text/plain" THEN "text-x-generic.png"
    ELSE "unknown.png"

\* _open_image(path, size, draft) is None: neither PIL nor GdkPixbuf opens
\* the file.
damaged(path) ==
    path \notin {"a.png", "image-x-generic.png", "text-x-generic.png",
                 "unknown.png"}

\* _transform_image(path, size, fill_image, draw_border, draft)
_transform_image(params) ==
    IF damaged(params[1]) THEN NoPixbuf
    ELSE [image |-> params[1], size |-> params[2]]

\* dict.get(key, None)
get(dict, key) == IF key \in DOMAIN dict THEN dict[key] ELSE NoPixbuf

\* dict[key] = value
set(dict, key, value) ==
    [k \in DOMAIN dict \cup {key} |-> IF k = key THEN value ELSE dict[k]]

\* deque.remove(params), params being in the deque at most once
remove(deque, params) == SelectSeq(deque, LAMBDA k : k # params)

\* deque.append(params) on a deque of maxlen MAX_CACHE_SIZE
append(deque, params) ==
    IF Len(deque) = MAX_CACHE_SIZE THEN Append(Tail(deque), params)
    ELSE Append(deque, params)

\* No get_image call was made yet.
NoCaller ==
    [pc |-> "idle", params |-> NoParams, load_on_thread |-> FALSE,
     miss |-> FALSE, ran |-> {}, ret |-> NoPixbuf]

\* ImageCacheManager.__init__, the thread _task started.
ImgInit ==
    /\ _lock = "free"
    /\ _cache = <<>>
    /\ _placeholders = <<>>
    /\ _mru = <<>>
    /\ _waiting = {}
    /\ _queue = <<>>
    /\ caller = NoCaller
    /\ previous = NoCaller
    /\ _task = [pc |-> "get", params |-> NoParams, pixbuf |-> NoPixbuf]
    /\ image_loaded = FALSE
    /\ unlocked = {}

\* No transformer was applied yet.
NoApplied ==
    [name |-> "", value |-> [type |-> "NoneType", v |-> 0, s |-> ""],
     raised |-> "", result |-> [type |-> "NoneType", v |-> 0, s |-> ""]]

\* A database without a search index.
NoSearch == search_table = FALSE /\ search_index = FALSE

ExtInit == DbInit /\ ImgInit /\ applied = NoApplied /\ NoSearch

Init ==
    /\ ExtInit
    /\ \E n \in 0..NRows :
          \/ /\ PARENT_ID_COLUMN = FALSE
             /\ CHILDREN_LEN_COLUMN = FALSE
             /\ table = PlainTable(n)
          \/ \E p \in ParentMaps(n), stored \in BOOLEAN :
                /\ PARENT_ID_COLUMN = TRUE
                /\ CHILDREN_LEN_COLUMN = stored
                /\ table = FilesTable(n, p, stored)
    /\ total_recs = 0
    /\ active_params = [flat |-> FALSE, where |-> NoWhere, page |-> None,
                        parent_id |-> None]
    /\ rows = NoNode
    /\ row_id_mapper = <<>>
    /\ model_total_recs = None
    /\ call = NoCall
    /\ ret = NoNode
    /\ queries = NoQueries
    /\ paging = NoPaging

\* The run of successive pages the load() just made belongs to: a page 0
\* starts a run, the next page under the same filter continues it, any
\* other load ends it.
paging_after(params, res) ==
    LET page == IF params.page = None THEN 0 ELSE params.page
        len == Len(res.rows.kids)
        late == IF res.queries.select > 0 /\ page * MAX_RECS >= res.total_recs
                THEN {page} ELSE {}
    IN  IF page = 0
        THEN [active |-> TRUE, where |-> params.where, flat |-> params.flat,
              next |-> 1, sum |-> len, maxlen |-> len, late |-> late,
              done |-> len = 0]
        ELSE IF /\ paging.active /\ ~paging.done /\ page = paging.next
                /\ params.where = paging.where /\ params.flat = paging.flat
        THEN [paging EXCEPT !.next = @ + 1, !.sum = @ + len,
                            !.maxlen = IF len > @ THEN len ELSE @,
                            !.late = @ \cup late, !.done = len = 0]
        ELSE NoPaging

\* A direct call of data_source.load(params).
DSLoad(params) ==
    LET res == load(params, total_recs)
    IN  /\ total_recs' = res.total_recs
        /\ ret' = res.rows
        /\ queries' = res.queries
        /\ paging' = paging_after(params, res)
        /\ call' = [op |-> "load", params |-> params]
        /\ UNCHANGED <<dsvars, active_params, rows, row_id_mapper,
                       model_total_recs, extvars>>

\* load({'where': .., 'flat': .., 'page': ..})
DSLoadPage ==
    \E where \in ViewWheres, flat \in BOOLEAN, page \in 0..MaxPage :
        /\ flat => PARENT_ID_COLUMN
        /\ DSLoad([where |-> where, flat |-> flat, page |-> page,
                   parent_id |-> None])

\* load({'where': ..}) and load({'parent_id': ..}) on a hierarchical source
DSLoadTree ==
    /\ PARENT_ID_COLUMN
    /\ \/ \E where \in Wheres \ {NoWhere} :
             DSLoad([where |-> where, flat |-> FALSE, page |-> None,
                     parent_id |-> None])
       \/ \E parent_id \in {NULL} \cup Ids :
             DSLoad([where |-> NoWhere, flat |-> FALSE, page |-> None,
                     parent_id |-> parent_id])

NextDS == DSLoadPage \/ DSLoadTree

SpecDS == Init /\ [][NextDS]_vars

----------------------------------------------------------------------------
(* The Node tree of DataGridModel.  A position is the sequence of 0-based *)
(* list indices that leads from self.rows to a Node.                      *)

RECURSIVE NodeAt(_, _)
NodeAt(tree, pos) ==
    IF pos = <<>> THEN tree ELSE NodeAt(tree.kids[pos[1] + 1], Tail(pos))

RECURSIVE ReplaceAt(_, _, _)
ReplaceAt(tree, pos, node) ==
    IF pos = <<>> THEN node
    ELSE [tree EXCEPT !.kids[pos[1] + 1] = ReplaceAt(@, Tail(pos), node)]

\* The positions of the Nodes below pos, pos itself excluded.
RECURSIVE Below(_, _)
Below(node, pos) ==
    UNION {{pos \o <<k - 1>>} \cup Below(node.kids[k], pos \o <<k - 1>>) :
              k \in 1..Len(node.kids)}

Positions(tree) == Below(tree, <<>>)

ChildPositions(tree, pos) ==
    [k \in 1..Len(NodeAt(tree, pos).kids) |-> pos \o <<k - 1>>]

\* The state the model's methods read and write, threaded through them,
\* with the outcome of the method in result (and pos).
ModelState ==
    [active_params |-> active_params, rows |-> rows,
     row_id_mapper |-> row_id_mapper, total_recs |-> total_recs,
     result |-> "None", pos |-> NoPath]

Raised(m) == m.result \in {"IndexError", "TypeError"}

----------------------------------------------------------------------------
(* DataGridModel.refresh *)

\* for i, row in enumerate(self.rows): row.path = (i, )
enumerate_paths(nodes) ==
    [k \in 1..Len(nodes) |-> [nodes[k] EXCEPT !.path = <<k - 1>>]]

\* self.row_id_mapper[row.data[self.id_column_idx]] = row, for the top rows
top_row_ids(nodes) ==
    [id \in {nodes[k].data : k \in 1..Len(nodes)} |->
        <<(CHOOSE k \in 1..Len(nodes) : nodes[k].data = id) - 1>>]

\* refresh() from self.rows = self.data_source.load(...) on, res being what
\* load returned
refresh_loaded(m, res) ==
    [m EXCEPT !.rows = [res.rows EXCEPT !.path = <<>>,
                                        !.kids = enumerate_paths(@)],
              !.row_id_mapper = top_row_ids(res.rows.kids),
              !.total_recs = res.total_recs]

\* a refresh that keeps 'page' and 'parent_id' in self.active_params
refresh_keeping_params(m) == m

\* del self.active_params['page'], del self.active_params['parent_id']
refresh_params(m) ==
    [m EXCEPT !.active_params.page = None, !.active_params.parent_id = None]

refresh_load(m) == refresh_loaded(m, load(m.active_params, m.total_recs))

refresh(m) == refresh_load(refresh_params(m))

----------------------------------------------------------------------------
(* DataGridModel.add_rows *)

\* path_offset of add_rows(parent_node): the index given to the first new row
node_path_offset(parent_row) == 0

\* The loop "for i, row in enumerate(rows)": the rows get their paths, are
\* registered in row_id_mapper and appended to parent_row (the Node at
\* parent_at); children_len grows only outside a tree view.
append_rows(m, parent_at, parent_row, path_offset, new, is_tree) ==
    [m EXCEPT
        !.rows = ReplaceAt(@, parent_at,
                    [parent_row EXCEPT
                        !.kids = @ \o [k \in 1..Len(new) |->
                                          [new[k] EXCEPT !.path =
                                              parent_row.path
                                                 \o <<path_offset + k - 1>>]],
                        !.children_len = IF is_tree THEN @ ELSE @ + Len(new)]),
        !.row_id_mapper =
            [id \in DOMAIN @ \cup {new[k].data : k \in 1..Len(new)} |->
                IF \E k \in 1..Len(new) : new[k].data = id
                THEN parent_at \o
                     <<Len(parent_row.kids)
                        + (CHOOSE k \in 1..Len(new) : new[k].data = id) - 1>>
                ELSE @[id]],
        !.result = "True"]

\* add_rows from "rows = self.data_source.load(self.active_params)" on, res
\* being what load returned
add_rows_loaded(m, parent_at, parent_row, path_offset, res, is_tree) ==
    IF Len(res.rows.kids) = 0
    THEN [m EXCEPT !.total_recs = res.total_recs, !.result = "False"]
    ELSE IF parent_row.path = NoPath                     \* None + (i, )
    THEN [m EXCEPT !.total_recs = res.total_recs, !.result = "TypeError"]
    ELSE append_rows([m EXCEPT !.total_recs = res.total_recs], parent_at,
                     parent_row, path_offset, res.rows.kids, is_tree)

\* add_rows once page and parent_id are set in self.active_params
add_rows_load(m, parent_at, parent_row, path_offset, is_tree) ==
    add_rows_loaded(m, parent_at, parent_row, path_offset,
                    load(m.active_params, m.total_recs), is_tree)

\* add_rows(): parent_row = self.rows
add_rows_root(m, last) ==
    add_rows_load(
        [m EXCEPT !.active_params.page = (IF @ = None THEN 0 ELSE @) + 1,
                  !.active_params.parent_id = NULL],
        <<>>, m.rows, last.path[Len(last.path)] + 1, FALSE)

\* add_rows(parent_node): parent_row = parent_node
add_rows_node(m, parent_pos, parent_row, is_tree) ==
    add_rows_load([m EXCEPT !.active_params.parent_id = parent_row.data],
                  parent_pos, parent_row, node_path_offset(parent_row),
                  is_tree)

\* parent_pos is NoPath for add_rows() and the position of parent_node for
\* add_rows(parent_node).
add_rows(m, parent_pos) ==
    IF parent_pos = NoPath
    THEN IF PARENT_ID_COLUMN /\ ~m.active_params.flat
         THEN [m EXCEPT !.result = "False"]
         ELSE IF Len(m.rows.kids) = 0
         THEN [m EXCEPT !.result = "IndexError"]         \* self.rows[-1]
         ELSE add_rows_root(m, m.rows.kids[Len(m.rows.kids)])
    ELSE IF NodeAt(m.rows, parent_pos).data = NULL
         THEN [m EXCEPT !.result = "TypeError"]          \* self.rows.data[...]
         ELSE add_rows_node(m, parent_pos, NodeAt(m.rows, parent_pos),
                            PARENT_ID_COLUMN /\ ~m.active_params.flat)

_ensure_children_is_loaded(m, pos) ==
    IF ~is_children_loaded(NodeAt(m.rows, pos))
    THEN add_rows(m, pos)
    ELSE m

----------------------------------------------------------------------------
(* DataGridModel._get_row_by_path and on_get_iter *)

\* a lookup that also loads the children of the row it returns
return_row_loaded(m, pos) ==
    [_ensure_children_is_loaded(m, pos) EXCEPT !.result = "row", !.pos = pos]

\* row = rows[iter_aux[0]]; return row
return_row(m, pos) == [m EXCEPT !.result = "row", !.pos = pos]

\* get_row_by_iter_aux(iter_aux, rows), rows being the Node at pos;
\* row_by_index is its body after self._ensure_children_is_loaded(rows).
RECURSIVE get_row_by_iter_aux(_, _, _)
row_by_index(m, iter_aux, pos) ==
    IF Raised(m) THEN m
    ELSE IF iter_aux = <<>> \/ iter_aux[1] >= Len(NodeAt(m.rows, pos).kids)
    THEN [m EXCEPT !.result = "IndexError"]
    ELSE IF Len(iter_aux) = 1
    THEN return_row(m, pos \o <<iter_aux[1]>>)
    ELSE get_row_by_iter_aux(m, Tail(iter_aux), pos \o <<iter_aux[1]>>)

get_row_by_iter_aux(m, iter_aux, pos) ==
    row_by_index(_ensure_children_is_loaded(m, pos), iter_aux, pos)

_get_row_by_path(m, iter_) == get_row_by_iter_aux(m, iter_, <<>>)

\* except IndexError: return None; else: return tuple(path)
iter_or_None(m) ==
    IF m.result = "IndexError" THEN [m EXCEPT !.result = "None"]
    ELSE IF m.result = "row" THEN [m EXCEPT !.result = "iter"]
    ELSE m

\* The iter is the path itself; an IndexError makes it None.
on_get_iter(m, path) == iter_or_None(_get_row_by_path(m, path))

----------------------------------------------------------------------------
(* DataGridModel.iter_rows and get_row_by_id *)

\* The traversal state: m, the positions yielded so far (yielded) and
\* whether the consumer has stopped the generator (stop).  row_id is the
\* id get_row_by_id looks for after every yield, None for a consumer that
\* takes every row.
Found(m, row_id) == row_id # None /\ row_id \in DOMAIN m.row_id_mapper

\* _iter_children_aux: stack holds the positions still to visit, the next
\* one first.
RECURSIVE iter_children_aux(_, _, _, _)
\* yield row, then its children: m1 is the model after the row at the head
\* of the stack had its children loaded (if load_rows)
yield_row(t, stack, load_rows, row_id, m1) ==
    IF Raised(m1) THEN [t EXCEPT !.m = m1]
    ELSE iter_children_aux(
            [m |-> m1, yielded |-> Append(t.yielded, Head(stack)),
             stop |-> Found(m1, row_id)],
            ChildPositions(m1.rows, Head(stack)) \o Tail(stack),
            load_rows, row_id)

iter_children_aux(t, stack, load_rows, row_id) ==
    IF stack = <<>> \/ t.stop \/ Raised(t.m) THEN t
    ELSE yield_row(t, stack, load_rows, row_id,
                   IF load_rows
                   THEN _ensure_children_is_loaded(t.m, Head(stack))
                   ELSE t.m)

\* while self.add_rows(): iterate over self.rows[rows_len:]
RECURSIVE iter_more_pages(_, _)
\* for row in _iter_children_aux(self.rows[rows_len:]), m1 being the model
\* after self.add_rows()
iter_new_page(t, row_id, rows_len, m1) ==
    IF m1.result # "True" THEN [t EXCEPT !.m = m1]
    ELSE iter_more_pages(
            iter_children_aux(
                [t EXCEPT !.m = m1],
                [k \in 1..(Len(m1.rows.kids) - rows_len) |->
                    <<rows_len + k - 1>>],
                TRUE, row_id),
            row_id)

iter_more_pages(t, row_id) ==
    IF t.stop \/ Raised(t.m) THEN t
    ELSE iter_new_page(t, row_id, Len(t.m.rows.kids), add_rows(t.m, NoPath))

\* if load_rows: ... while self.add_rows(): ...
iter_pages(t, load_rows, row_id) ==
    IF load_rows THEN iter_more_pages(t, row_id) ELSE t

iter_rows(m, load_rows, row_id) ==
    iter_pages(iter_children_aux([m |-> m, yielded |-> <<>>, stop |-> FALSE],
                                 ChildPositions(m.rows, <<>>), load_rows,
                                 row_id),
               load_rows, row_id)

\* What get_row_by_id returns after "for row in self.iter_rows(...)" ended
\* as t describes.
row_found(t, row_id) ==
    IF Raised(t.m) THEN t.m
    ELSE IF t.stop
    THEN [t.m EXCEPT !.result = "row", !.pos = t.m.row_id_mapper[row_id]]
    ELSE [t.m EXCEPT !.result = "None"]

get_row_by_id(m, row_id, load_rows) ==
    IF row_id \in DOMAIN m.row_id_mapper
    THEN [m EXCEPT !.result = "row", !.pos = m.row_id_mapper[row_id]]
    ELSE row_found(iter_rows(m, load_rows, row_id), row_id)

----------------------------------------------------------------------------
(* The calls made on the model *)

Paths == UNION {[1..d -> 0..MaxIndex] : d \in 1..MaxDepth}

Refreshed == rows # NoNode

\* The method returned (or raised) leaving the model as m describes.
Returns(m) ==
    /\ Cardinality(Positions(m.rows)) <= MaxNodes
    /\ m.active_params.page <= MaxPage
    /\ active_params' = m.active_params
    /\ rows' = m.rows
    /\ row_id_mapper' = m.row_id_mapper
    /\ total_recs' = m.total_recs
    /\ UNCHANGED <<dsvars, ret, queries, paging, extvars>>

\* The call op(arg) returned, with m.result as its outcome.
Called(m, op, arg) ==
    /\ Returns(m)
    /\ call' = [op |-> op, arg |-> arg, result |-> m.result]

Refreshes(m) ==
    /\ Called(m, "refresh", <<>>)
    /\ model_total_recs' = m.total_recs

IterRowsCalled(t, load_rows) ==
    /\ Returns(t.m)
    /\ call' = [op |-> "iter_rows", arg |-> load_rows,
                result |-> IF Raised(t.m) THEN t.m.result ELSE "None",
                yielded |-> t.yielded]

GetRowByIdCalled(m, row_id, load_rows) ==
    /\ Returns(m)
    /\ call' = [op |-> "get_row_by_id", arg |-> <<row_id>>,
                load_rows |-> load_rows,
                result |-> m.result, pos |-> m.pos]

\* The controller sets the view's flat flag and filter, then refresh().
Refresh ==
    \E flat \in BOOLEAN, where \in ViewWheres :
        /\ flat => PARENT_ID_COLUMN
        /\ Refreshes(refresh([ModelState EXCEPT !.active_params.flat = flat,
                                                !.active_params.where = where]))

\* add_rows()
AddRowsRoot ==
    /\ Refreshed
    /\ Called(add_rows(ModelState, NoPath), "add_rows", NoPath)
    /\ UNCHANGED model_total_recs

\* add_rows(parent_node) on a row of a tree view
AddRowsNode ==
    /\ Refreshed
    /\ PARENT_ID_COLUMN /\ ~active_params.flat
    /\ \E pos \in Positions(rows) :
          Called(add_rows(ModelState, pos), "add_rows", pos)
    /\ UNCHANGED model_total_recs

\* get_iter(path)
GetIter ==
    /\ Refreshed
    /\ \E path \in Paths :
          Called(on_get_iter(ModelState, path), "get_iter", path)
    /\ UNCHANGED model_total_recs

\* list(iter_rows(load_rows))
IterRows ==
    /\ Refreshed
    /\ \E load_rows \in BOOLEAN :
          IterRowsCalled(iter_rows(ModelState, load_rows, None), load_rows)
    /\ UNCHANGED model_total_recs

\* get_row_by_id(row_id, load_rows)
GetRowById ==
    /\ Refreshed
    /\ \E row_id \in 1..NRows, load_rows \in BOOLEAN :
          GetRowByIdCalled(get_row_by_id(ModelState, row_id, load_rows),
                           row_id, load_rows)
    /\ UNCHANGED model_total_recs

Next ==
    \/ Refresh
    \/ AddRowsRoot
    \/ AddRowsNode
    \/ GetIter
    \/ IterRows
    \/ GetRowById

Spec == Init /\ [][Next]_vars

----------------------------------------------------------------------------
(* Properties of SQLiteDataSource.load, checked under SpecDS *)

PageOf(params) == IF params.page = None THEN 0 ELSE params.page

\* The rows the WHERE clause of load(params) selects.
MatchingRows(params) ==
    {i \in Ids : /\ params.where # NoWhere =>
                        _OPERATOR_MAPPER(params.where.operator, i,
                                         params.where.param[1])
                 /\ params.flat => table[i].flat}

RECURSIVE Ancestors(_)
Ancestors(r) ==
    IF table[r].parent = NULL THEN {}
    ELSE {table[r].parent} \cup Ancestors(table[r].parent)

\* The run of pages is one of a flat or non-hierarchical source.
FlatPaging == paging.active /\ (~PARENT_ID_COLUMN \/ paging.flat)

\* C2 as stated: loading pages 0, 1, 2, ... of a flat or non-hierarchical
\* source until an empty page comes back yields pages of at most MAX_RECS
\* rows that together hold exactly total_recs rows, and no SELECT is issued
\* for any page with page * MAX_RECS >= total_recs.
C2_NoSelectPastTotal ==
    FlatPaging =>
        /\ paging.maxlen <= MAX_RECS
        /\ paging.late = {}
        /\ paging.done => paging.sum = total_recs

\* C2 amended: the same, except that page 0 always issues its SELECT (also
\* when total_recs is 0); no SELECT is issued for a page > 0 with
\* page * MAX_RECS >= total_recs.
C2_NoSelectPastTotalAfterPage0 ==
    FlatPaging =>
        /\ paging.maxlen <= MAX_RECS
        /\ paging.late \subseteq {0}
        /\ paging.done => paging.sum = total_recs

\* A run of three pages that ended with the empty page.
C2_Witness ==
    /\ FlatPaging /\ paging.done /\ paging.next = 3
    /\ paging.sum > MAX_RECS /\ paging.sum = total_recs

\* C3: a load with page > 0 leaves total_recs as it was and runs no COUNT,
\* and when page * MAX_RECS >= total_recs it returns an empty node without
\* any query; a page-0 load recomputes total_recs with a COUNT under the
\* same WHERE clause.
C3_OnlyPage0Counts ==
    [][call'.op = "load" =>
          LET page == PageOf(call'.params)
          IN  /\ page > 0 => total_recs' = total_recs /\ ~queries'.count
              /\ (page > 0 /\ page * MAX_RECS >= total_recs) =>
                     ret' = Node(NULL, 0) /\ queries' = NoQueries
              /\ page = 0 =>
                     /\ queries'.count
                     /\ total_recs' = Cardinality(MatchingRows(call'.params))
      ]_vars

\* A page > 0 at or past the end of a non-empty result was asked for.
C3_Witness ==
    /\ call.op = "load" /\ PageOf(call.params) > 0
    /\ total_recs > 0 /\ PageOf(call.params) * MAX_RECS >= total_recs
    /\ ret = Node(NULL, 0) /\ queries = NoQueries

\* The last call was load({'parent_id': p}) on a hierarchical source.
LazyTreeLoad ==
    /\ call.op = "load" /\ PARENT_ID_COLUMN
    /\ call.params.where = NoWhere /\ ~call.params.flat
    /\ call.params.page = None

\* C4: on a hierarchical source, without where clause and with flat off,
\* load({'parent_id': p}) returns exactly the rows whose parent is p (the
\* rows without parent when p is None), each a Node with no children
\* attached and children_len equal to its number of children in the table.
C4_LazyLoadsDirectChildren ==
    LazyTreeLoad =>
        LET p == IF call.params.parent_id = None THEN NULL
                 ELSE call.params.parent_id
        IN  /\ Len(ret.kids) = Cardinality(ChildrenOf(p))
            /\ {ret.kids[k].data : k \in 1..Len(ret.kids)} = ChildrenOf(p)
            /\ \A k \in 1..Len(ret.kids) :
                   /\ ret.kids[k].kids = <<>>
                   /\ ret.kids[k].children_len =
                          Cardinality(ChildrenOf(ret.kids[k].data))

\* The children of a row were loaded, one of them with children of its own.
C4_Witness ==
    /\ LazyTreeLoad /\ call.params.parent_id \in Ids
    /\ \E k \in 1..Len(ret.kids) :
           ret.kids[k].children_len > 0 /\ ret.kids[k].kids = <<>>

\* The last call was a load with a where clause on a hierarchical source,
\* flat off.
FilteredTreeLoad ==
    /\ call.op = "load" /\ PARENT_ID_COLUMN
    /\ call.params.where # NoWhere /\ ~call.params.flat
    /\ PageOf(call.params) = 0

\* C6: over a forest, a filtered hierarchical load returns a tree in which
\* every matching row appears exactly once, every node is a top-level node
\* whose parent is NULL or a child of the node of its parent row, and every
\* non-matching node is an ancestor of a matching row.
C6_FilteredTreeConnected ==
    FilteredTreeLoad =>
        LET M == MatchingRows(call.params)
            P == Positions(ret)
        IN  /\ \A r \in M :
                   Cardinality({pos \in P : NodeAt(ret, pos).data = r}) = 1
            /\ \A pos \in P :
                   LET r == NodeAt(ret, pos).data
                   IN  /\ r \in Ids
                       /\ IF Len(pos) = 1 THEN table[r].parent = NULL
                          ELSE table[r].parent =
                                   NodeAt(ret, SubSeq(pos, 1, Len(pos) - 1)).data
                       /\ r \notin M => \E x \in M : r \in Ancestors(x)

\* A matching row sits two levels below a non-matching top-level row.
C6_Witness ==
    /\ FilteredTreeLoad
    /\ \E pos \in Positions(ret) :
           /\ Len(pos) = 3
           /\ NodeAt(ret, pos).data \in MatchingRows(call.params)
           /\ NodeAt(ret, <<pos[1]>>).data \notin MatchingRows(call.params)

\* C7: after a filtered hierarchical load every node of the returned tree,
\* the root included, has children_len equal to the number of children
\* attached to it (however many rounds attached them), not to the number of
\* children the row has in the table.
C7_ChildrenLenIsAttached ==
    FilteredTreeLoad =>
        \A pos \in Positions(ret) \cup {<<>>} :
            NodeAt(ret, pos).children_len = Len(NodeAt(ret, pos).kids)

\* A matching row got a matching child in one round and, in a later round,
\* a child loaded only as the parent of a match.
C7_Witness ==
    /\ FilteredTreeLoad
    /\ \E pos \in Positions(ret) :
           LET node == NodeAt(ret, pos)
               M == MatchingRows(call.params)
           IN  /\ node.data \in M
               /\ \E i, j \in 1..Len(node.kids) :
                      node.kids[i].data \in M /\ node.kids[j].data \notin M
               /\ node.children_len = Len(node.kids)

----------------------------------------------------------------------------
(* Properties of DataGridModel, checked under Spec *)

TreeView == PARENT_ID_COLUMN /\ ~active_params.flat

\* The model shows a hierarchical source unfiltered: children load lazily.
LazyTreeView == Refreshed /\ TreeView /\ active_params.where = NoWhere

Nodes(tree) == Positions(tree) \cup {<<>>}

ProperPrefix(p, q) == Len(p) < Len(q) /\ SubSeq(q, 1, Len(p)) = p

\* C1 as stated: after any sequence of refresh(), add_rows(),
\* add_rows(parent_node), get_iter and iter_rows calls, every materialized
\* Node has len(node) <= node.children_len.
C1_LenWithinChildrenLen ==
    Refreshed =>
        \A pos \in Nodes(rows) :
            Len(NodeAt(rows, pos).kids) <= NodeAt(rows, pos).children_len

\* C5 as stated: in a lazy hierarchical model, when add_rows(node) is called
\* on a node whose children are not loaded (is_children_loaded() is false)
\* and returns True, then len(node) == node.children_len afterwards and the
\* attached children are exactly the rows whose parent is the node's row.
C5_AddRowsLoadsChildren ==
    [][\A pos \in Positions(rows) :
          (/\ LazyTreeView
           /\ call'.op = "add_rows" /\ call'.arg = pos
           /\ call'.result = "True"
           /\ ~is_children_loaded(NodeAt(rows, pos))) =>
              LET node == NodeAt(rows', pos)
              IN  /\ Len(node.kids) = node.children_len
                  /\ Len(node.kids) = Cardinality(ChildrenOf(node.data))
                  /\ {node.kids[k].data : k \in 1..Len(node.kids)} =
                         ChildrenOf(node.data)
      ]_vars

\* C8: get_iter(path) on a lazy hierarchical model loads the children of
\* exactly the proper ancestors of path whose children were not loaded,
\* loads nothing for the addressed node, for siblings or for any node that
\* is no prefix of path, leaves every other node as it was, and returns
\* None, without raising, when path addresses no row.
C8_GetIterLoadsAncestorsOnly ==
    [][(LazyTreeView /\ call'.op = "get_iter") =>
          LET path == call'.arg
              before(pos) ==
                  IF pos \in Nodes(rows) THEN NodeAt(rows, pos)
                  ELSE [NodeAt(rows', pos) EXCEPT !.kids = <<>>]
              after(pos) == NodeAt(rows', pos)
              grown(pos) == Len(after(pos).kids) # Len(before(pos).kids)
          IN  /\ Nodes(rows) \subseteq Nodes(rows')
              /\ \A pos \in Nodes(rows') :
                     /\ grown(pos) <=>
                            /\ ProperPrefix(pos, path)
                            /\ ~is_children_loaded(before(pos))
                     /\ after(pos).data = before(pos).data
                     /\ after(pos).children_len = before(pos).children_len
                     /\ after(pos).path = before(pos).path
                     /\ grown(pos) =>
                            /\ Len(after(pos).kids) = Len(before(pos).kids)
                                  + Cardinality(ChildrenOf(after(pos).data))
                            /\ \A k \in (Len(before(pos).kids) + 1)
                                           ..Len(after(pos).kids) :
                                   after(pos).kids[k].data
                                       \in ChildrenOf(after(pos).data)
              /\ call'.result =
                     IF path \in Positions(rows') THEN "iter" ELSE "None"
      ]_vars

\* get_iter reached a row three levels deep whose own children stay
\* unloaded.
C8_Witness ==
    /\ LazyTreeView /\ call.op = "get_iter" /\ call.result = "iter"
    /\ Len(call.arg) = 3
    /\ NodeAt(rows, call.arg).children_len > 0
    /\ NodeAt(rows, call.arg).kids = <<>>

\* C9 as stated: every node attached by one add_rows call has
\* node.path == parent.path + (k,), k being its index in the parent's child
\* list; the indices are consecutive and start at the number of children
\* the parent had before the call.
C9_PathIsParentPathPlusIndex ==
    [][\A pos \in Positions(rows) \cup {NoPath} :
          (/\ Refreshed
           /\ call'.op = "add_rows" /\ call'.arg = pos
           /\ call'.result = "True") =>
              LET at == IF pos = NoPath THEN <<>> ELSE pos
                  had == Len(NodeAt(rows, at).kids)
                  parent == NodeAt(rows', at)
              IN  \A k \in (had + 1)..Len(parent.kids) :
                     parent.kids[k].path = parent.path \o <<k - 1>>
      ]_vars

\* The rows load() can bring into the model under the current params.
RowsInView ==
    LET M == MatchingRows(active_params)
    IN  IF TreeView /\ active_params.where # NoWhere
        THEN M \cup UNION {Ancestors(r) : r \in M}
        ELSE M

\* C10 as stated: get_row_by_id(id) returns the Node whose primary key is
\* id whenever such a node is materialized in the tree at any depth;
\* with load_rows=True it returns it whenever the row exists in the dataset
\* under the current params; it returns None only when the row does not
\* exist.
C10_FindsMaterializedRow ==
    call.op = "get_row_by_id" =>
        LET id == call.arg[1]
            present == \E pos \in Positions(rows) : NodeAt(rows, pos).data = id
        IN  /\ call.result = "row" => NodeAt(rows, call.pos).data = id
            /\ present => call.result = "row"
            /\ (call.load_rows /\ id \in RowsInView) => call.result = "row"
            /\ call.result = "None" => ~present /\ id \notin RowsInView

----------------------------------------------------------------------------
(* iter_rows and refresh *)

\* The positions below pos in depth-first pre-order.
RECURSIVE PreorderBelow(_, _, _)
PreorderBelow(node, pos, k) ==
    IF k > Len(node.kids) THEN <<>>
    ELSE <<pos \o <<k - 1>>>>
            \o PreorderBelow(node.kids[k], pos \o <<k - 1>>, 1)
            \o PreorderBelow(node, pos, k + 1)

Preorder(tree) == PreorderBelow(tree, <<>>, 1)

\* C11 as stated: iter_rows(load_rows=False) yields every materialized node
\* exactly once in depth-first pre-order and loads nothing;
\* iter_rows(load_rows=True) terminates (without raising) and yields every
\* row of the dataset under the current params exactly once in depth-first
\* pre-order.
C11_IterRowsYieldsEveryRowOnce ==
    [][(Refreshed /\ call'.op = "iter_rows") =>
          /\ call'.result = "None"
          /\ call'.yielded = Preorder(rows')
          /\ ~call'.arg => rows' = rows /\ total_recs' = total_recs
          /\ call'.arg =>
                /\ {NodeAt(rows', pos).data : pos \in Positions(rows')}
                      = RowsInView
                /\ Cardinality(Positions(rows')) = Cardinality(RowsInView)
      ]_vars

StripPath(node) == [node EXCEPT !.path = NoPath]

----------------------------------------------------------------------------
(* SQLiteDataSource.update and the 'rows-changed' signal *)

\* The variables of the grid model, which no data source instance of this
\* part touches.
gridvars == <<table, PARENT_ID_COLUMN, CHILDREN_LEN_COLUMN, total_recs,
              active_params, rows, row_id_mapper, model_total_recs, ret,
              queries, paging, ftsvars>>

\* No grid is open: only data source instances are created and updated.
InitUpd ==
    /\ ExtInit
    /\ PARENT_ID_COLUMN = FALSE
    /\ CHILDREN_LEN_COLUMN = FALSE
    /\ table = PlainTable(0)
    /\ total_recs = 0
    /\ active_params = [flat |-> FALSE, where |-> NoWhere, page |-> None,
                        parent_id |-> None]
    /\ rows = NoNode
    /\ row_id_mapper = <<>>
    /\ model_total_recs = None
    /\ call = NoCall
    /\ ret = NoNode
    /\ queries = NoQueries
    /\ paging = NoPaging

\* SQLiteDataSource(db_file, table): self.__class__._DBS.add(self)
NewDataSource ==
    \E i \in DbIds, t \in Tables :
        /\ bound[i] = Unbound
        /\ \A j \in DbIds : j < i => bound[j] # Unbound
        /\ bound' = [bound EXCEPT ![i] = t]
        /\ _DBS' = _DBS \cup {i}
        /\ call' = [op |-> "SQLiteDataSource", self |-> i]
        /\ UNCHANGED <<store, signals, gridvars, imgvars, tsvars>>

\* The last reference to an instance is dropped: the WeakSet forgets it.
Collect ==
    \E i \in _DBS :
        /\ _DBS' = _DBS \ {i}
        /\ call' = [op |-> "del", self |-> i]
        /\ UNCHANGED <<bound, store, signals, gridvars, imgvars, tsvars>>

\* an update that notifies every instance on the same file, whatever its
\* table
same_file(db, self) ==
    db # self /\ bound[db].db_file = bound[self].db_file

\* The test of the loop "for db in self.__class__._DBS" that lets db emit.
same_table(db, self) ==
    /\ db # self
    /\ <<bound[db].db_file, bound[db].table>>
          = <<bound[self].db_file, bound[self].table>>

\* UPDATE ... SET column = value [WHERE id = ?], ids being None or a list
updated(column, value, ids) ==
    [r \in DOMAIN column |->
        IF ids = <<None>> \/ r \in Range(ids) THEN value ELSE column[r]]

\* update(params, ids) on instance self
update(self, value, ids) ==
    /\ store' = [store EXCEPT ![bound[self]] = updated(@, value, ids)]
    /\ signals' = [db \in DbIds |->
                      IF db \in _DBS /\ same_table(db, self)
                      THEN <<[params |-> value, ids |-> ids]>>
                      ELSE <<>>]
    /\ call' = [op |-> "update", self |-> self, params |-> value,
                ids |-> ids]
    /\ UNCHANGED <<_DBS, bound, gridvars, imgvars, tsvars>>

UpdIds == {<<None>>, <<>>} \cup {<<r>> : r \in 1..MaxUpdRows}

Update ==
    \E self \in _DBS, value \in {0, 1}, ids \in UpdIds :
        update(self, value, ids)

NextUpd == NewDataSource \/ Collect \/ Update

SpecUpd == InitUpd /\ [][NextUpd]_vars

\* C13: update(params, ids) emits 'rows-changed' carrying (params, ids)
\* exactly once on every other live instance bound to the same db_file and
\* table name, and never on the updating instance nor on an instance bound
\* to a different file or table (nor on a collected one).
C13_RowsChangedOnSiblingsOnly ==
    call.op = "update" =>
        \A db \in DbIds :
            IF /\ db \in _DBS /\ db # call.self
               /\ bound[db].db_file = bound[call.self].db_file
               /\ bound[db].table = bound[call.self].table
            THEN signals[db] = <<[params |-> call.params, ids |-> call.ids]>>
            ELSE signals[db] = <<>>

\* An update with two other live instances, one on the same file and table
\* and one on another table of the same file.
C13_Witness ==
    /\ call.op = "update"
    /\ \E a, b \in _DBS \ {call.self} :
          /\ bound[a] = bound[call.self] /\ signals[a] # <<>>
          /\ bound[b].db_file = bound[call.self].db_file
          /\ bound[b].table # bound[call.self].table /\ signals[b] = <<>>

(* ImageCacheManager: get_image on the main thread, _transform_task on its
   own thread *)

\* What the image cache manager leaves alone.
noimgvars == <<gridvars, dbvars, tsvars, call>>

\* a lookup that never finds the pixbuf
get_nothing(dict, key) == NoPixbuf

\* pixbuf = self._cache.get(params, None)
cached(dict, key) == get(dict, key)

\* the worker transforms whatever it dequeues
always_wanted(params, mru) == TRUE

\* "if params not in self._mru: continue", negated
wanted(params, mru) == params \in Range(mru)

\* the placeholder is made for any file from the icon of unknown files
unknown_icon(params) == <<"unknown.png", Min(params[2], 48)>> \o SubSeq(params, 3, 5)

\* The arguments of the transform that makes the placeholder of params:
\* (fallback, fallback_size) + params[2:]
placeholder_params(params) ==
    <<get_icon_for_file(params[1], Min(params[2], 48)), Min(params[2], 48)>>
        \o SubSeq(params, 3, 5)

\* placeholder_key = (fallback, ) + tuple(params[1:])
placeholder_key(params) ==
    <<get_icon_for_file(params[1], Min(params[2], 48))>> \o Tail(params)

\* "for params in set(self._cache) - set(self._mru): del self._cache[params]"
trimmed(dict, mru) == [k \in DOMAIN dict \cap Range(mru) |-> dict[k]]

\* _cache_pixbuf(params, pixbuf), the deque being mru
_cache_pixbuf(params, pixbuf, mru) ==
    /\ _cache' = trimmed(set(_cache, params, pixbuf), mru)
    /\ _waiting' = _waiting \ {params}

\* The mutation of object that thread makes, if thread does not hold _lock.
without_lock(thread, object) ==
    IF _lock = thread THEN {} ELSE {[thread |-> thread, object |-> object]}

\* get_image up to mru.remove: the main thread enters "with self._lock".
GetImage ==
    \E params \in Keys, load_on_thread \in BOOLEAN :
        /\ caller.pc = "idle"
        /\ _lock = "free"
        /\ Len(_queue) < MaxQueue
        /\ _lock' = "main"
        /\ _mru' = remove(_mru, params)
        /\ previous' = caller
        /\ caller' = [pc |-> "locked", params |-> params,
                      load_on_thread |-> load_on_thread, miss |-> FALSE,
                      ran |-> {}, ret |-> NoPixbuf]
        /\ UNCHANGED <<_cache, _placeholders, _waiting, _queue, _task,
                       image_loaded, unlocked, noimgvars>>

\* mru.append and a hit: "if pixbuf is not None: return pixbuf"
GetImageHit ==
    /\ caller.pc = "locked"
    /\ cached(_cache, caller.params) # NoPixbuf
    /\ _mru' = append(_mru, caller.params)
    /\ _lock' = "free"
    /\ caller' = [caller EXCEPT !.pc = "idle",
                                !.ret = cached(_cache, caller.params)]
    /\ UNCHANGED <<_cache, _placeholders, _waiting, _queue, previous, _task,
                   image_loaded, unlocked, noimgvars>>

\* mru.append and a miss with load_on_thread False, the file being readable:
\* the transform runs under the lock, _cache_pixbuf, return pixbuf
GetImageSync ==
    /\ caller.pc = "locked"
    /\ cached(_cache, caller.params) = NoPixbuf
    /\ ~caller.load_on_thread
    /\ _transform_image(caller.params) # NoPixbuf
    /\ _mru' = append(_mru, caller.params)
    /\ _cache_pixbuf(caller.params, _transform_image(caller.params),
                     append(_mru, caller.params))
    /\ _lock' = "free"
    /\ caller' = [caller EXCEPT !.pc = "idle", !.miss = TRUE,
                                !.ran = {caller.params},
                                !.ret = _transform_image(caller.params)]
    /\ UNCHANGED <<_placeholders, _queue, previous, _task, image_loaded,
                   unlocked, noimgvars>>

\* the same with a file that does not open: "if pixbuf:" fails and the call
\* goes on to the fallback
GetImageSyncDamaged ==
    /\ caller.pc = "locked"
    /\ cached(_cache, caller.params) = NoPixbuf
    /\ ~caller.load_on_thread
    /\ _transform_image(caller.params) = NoPixbuf
    /\ _mru' = append(_mru, caller.params)
    /\ _lock' = "free"
    /\ caller' = [caller EXCEPT !.pc = "fallback", !.miss = TRUE,
                                !.ran = {caller.params}]
    /\ UNCHANGED <<_cache, _placeholders, _waiting, _queue, previous, _task,
                   image_loaded, unlocked, noimgvars>>

\* mru.append and a miss with load_on_thread True:
\* "elif params not in self._waiting: add, put"
GetImageOnThread ==
    /\ caller.pc = "locked"
    /\ cached(_cache, caller.params) = NoPixbuf
    /\ caller.load_on_thread
    /\ _mru' = append(_mru, caller.params)
    /\ IF caller.params \notin _waiting
       THEN /\ _waiting' = _waiting \cup {caller.params}
            /\ _queue' = Append(_queue, caller.params)
       ELSE UNCHANGED <<_waiting, _queue>>
    /\ _lock' = "free"
    /\ caller' = [caller EXCEPT !.pc = "fallback", !.miss = TRUE]
    /\ UNCHANGED <<_cache, _placeholders, previous, _task, image_loaded,
                   unlocked, noimgvars>>

\* After the with block, the placeholder being known already.
GetImagePlaceholder ==
    /\ caller.pc = "fallback"
    /\ get(_placeholders, placeholder_key(caller.params)) # NoPixbuf
    /\ caller' = [caller EXCEPT
                    !.pc = "idle",
                    !.ret = get(_placeholders, placeholder_key(caller.params))]
    /\ UNCHANGED <<_lock, _cache, _placeholders, _mru, _waiting, _queue,
                   previous, _task, image_loaded, unlocked, noimgvars>>

\* After the with block, "if placeholder is None": the placeholder is made
\* and stored as the pixbuf of params.
GetImageNewPlaceholder ==
    /\ caller.pc = "fallback"
    /\ get(_placeholders, placeholder_key(caller.params)) = NoPixbuf
    /\ _placeholders' = set(_placeholders, placeholder_key(caller.params),
                            _transform_image(placeholder_params(caller.params)))
    /\ _cache' = set(_cache, caller.params,
                     _transform_image(placeholder_params(caller.params)))
    /\ unlocked' = unlocked \cup without_lock("main", "_cache")
    /\ caller' = [caller EXCEPT
                    !.pc = "idle",
                    !.ran = @ \cup {placeholder_params(caller.params)},
                    !.ret = _transform_image(placeholder_params(caller.params))]
    /\ UNCHANGED <<_lock, _mru, _waiting, _queue, previous, _task,
                   image_loaded, noimgvars>>

\* params = self._queue.get(), the top of the LIFO queue
TaskGet ==
    /\ _task.pc = "get"
    /\ _queue # <<>>
    /\ _task' = [pc |-> "check", params |-> _queue[Len(_queue)],
                 pixbuf |-> NoPixbuf]
    /\ _queue' = SubSeq(_queue, 1, Len(_queue) - 1)
    /\ unlocked' = unlocked \cup without_lock("_task", "_queue")
    /\ UNCHANGED <<_lock, _cache, _placeholders, _mru, _waiting, caller,
                   previous, image_loaded, noimgvars>>

\* "if params not in self._mru: continue"
TaskSkip ==
    /\ _task.pc = "check"
    /\ ~wanted(_task.params, _mru)
    /\ _task' = [_task EXCEPT !.pc = "get"]
    /\ UNCHANGED <<_lock, _cache, _placeholders, _mru, _waiting, _queue,
                   caller, previous, image_loaded, unlocked, noimgvars>>

\* The check passes and _transform_image(*params) starts.
TaskTransform ==
    /\ _task.pc = "check"
    /\ wanted(_task.params, _mru)
    /\ _task' = [_task EXCEPT !.pc = "transform"]
    /\ UNCHANGED <<_lock, _cache, _placeholders, _mru, _waiting, _queue,
                   caller, previous, image_loaded, unlocked, noimgvars>>

\* "if pixbuf is None: continue"
TaskDamaged ==
    /\ _task.pc = "transform"
    /\ _transform_image(_task.params) = NoPixbuf
    /\ _task' = [_task EXCEPT !.pc = "get"]
    /\ UNCHANGED <<_lock, _cache, _placeholders, _mru, _waiting, _queue,
                   caller, previous, image_loaded, unlocked, noimgvars>>

\* The transform made a pixbuf and the task enters "with self._lock".
TaskLock ==
    /\ _task.pc = "transform"
    /\ _transform_image(_task.params) # NoPixbuf
    /\ _lock = "free"
    /\ _lock' = "_task"
    /\ _task' = [_task EXCEPT !.pc = "publish",
                              !.pixbuf = _transform_image(_task.params)]
    /\ UNCHANGED <<_cache, _placeholders, _mru, _waiting, _queue, caller,
                   previous, image_loaded, unlocked, noimgvars>>

\* _cache_pixbuf under the lock, then GObject.idle_add(self.emit,
\* 'image-loaded')
TaskPublish ==
    /\ _task.pc = "publish"
    /\ _cache_pixbuf(_task.params, _task.pixbuf, _mru)
    /\ _lock' = "free"
    /\ image_loaded' = ~image_loaded
    /\ _task' = [_task EXCEPT !.pc = "get", !.pixbuf = NoPixbuf]
    /\ UNCHANGED <<_placeholders, _mru, _queue, caller, previous, unlocked,
                   noimgvars>>

NextImg ==
    \/ GetImage \/ GetImageHit \/ GetImageSync \/ GetImageSyncDamaged
    \/ GetImageOnThread \/ GetImagePlaceholder \/ GetImageNewPlaceholder
    \/ TaskGet \/ TaskSkip \/ TaskTransform \/ TaskDamaged \/ TaskLock
    \/ TaskPublish

\* No grid is open and no data source exists: only images are asked for.
SpecImg == InitUpd /\ [][NextImg]_vars

\* A get_image call returns in this step.
Completed == caller.pc # "idle" /\ caller'.pc = "idle"

\* C14: of two successive get_image calls with identical params and
\* load_on_thread False, the first missing the cache and its transform
\* succeeding, only the first runs the transform (once): the second returns
\* the cached pixbuf, the one the first returned, and leaves the key at the
\* most recently used end of the deque.
C14_SecondCallHitsCache ==
    [][(/\ Completed
        /\ ~caller.load_on_thread /\ ~previous.load_on_thread
        /\ previous.params = caller.params
        /\ previous.miss /\ ~damaged(caller.params[1]))
       => /\ previous.ran = {caller.params}
          /\ caller'.ran = {}
          /\ ~caller'.miss
          /\ caller'.ret = get(_cache, caller.params)
          /\ caller'.ret = previous.ret
          /\ caller'.ret # NoPixbuf
          /\ _mru' # <<>> /\ _mru'[Len(_mru')] = caller.params]_vars

\* The second of two such calls has returned, the deque holding another key
\* too.
C14_Witness ==
    /\ caller.pc = "idle" /\ ~caller.load_on_thread
    /\ ~previous.load_on_thread /\ previous.miss
    /\ previous.params = caller.params /\ caller.params \in Keys
    /\ ~damaged(caller.params[1])
    /\ Len(_mru) = MAX_CACHE_SIZE
    /\ ~caller.miss

\* The number of jobs for key in the queue.
pending(key) == Cardinality({i \in DOMAIN _queue : _queue[i] = key})

\* C15: for any cache key, at most one background job for that key is
\* pending in the worker queue at any time.
C15_OneJobPerKey == \A key \in Keys : pending(key) <= 1

Inserts ==
    \/ caller.pc = "locked" /\ caller'.pc = "idle" /\ caller'.miss
    \/ caller.pc = "fallback" /\ _placeholders' # _placeholders
    \/ _task.pc = "publish" /\ _task'.pc = "get"

\* C17: after every cache insert, the cache's key set is a subset of the
\* keys of the LRU deque.
C17_CacheWithinMru ==
    [][Inserts => DOMAIN _cache' \subseteq Range(_mru')]_vars

\* C18: every mutation of the cache dict, the waiting set, the job queue and
\* the LRU deque is made by a thread holding the manager's lock.
C18_MutationsUnderLock == unlocked = {}

\* C19: the worker starts the transform of a dequeued key only from its
\* check of the deque and only if the key is in the deque at that moment;
\* a key the check does not find is dropped with the cache left as it is
\* and no 'image-loaded' scheduled, and only a transformed key is published.
C19_WorkerSkipsUnwanted ==
    [][/\ (_task.pc = "check" /\ _task'.pc # "check")
          => IF _task.params \in Range(_mru)
             THEN _task'.pc = "transform"
             ELSE /\ _task'.pc = "get"
                  /\ _cache' = _cache
                  /\ image_loaded' = image_loaded
       /\ (_task.pc # "transform" /\ _task'.pc = "transform")
          => _task.pc = "check" /\ _task.params \in Range(_mru)
       /\ (_task.pc # "publish" /\ _task'.pc = "publish")
          => _task.pc = "transform"
       /\ (image_loaded' # image_loaded \/ _task'.pixbuf # _task.pixbuf)
          => _task.pc \in {"transform", "publish"}]_vars

\* The worker has dropped a key that fell out of the deque, a request for
\* it still marked as waiting.
C19_Witness ==
    /\ _task.pc = "get" /\ _task.params \in Keys
    /\ _task.params \notin Range(_mru)
    /\ _task.params \in _waiting
    /\ _task.params \notin DOMAIN _cache
    /\ ~damaged(_task.params[1])

(* The timestamp transformers of utils/transformations.py *)

\* The greatest timestamp datetime.utcfromtimestamp accepts (the last second
\* of year 9999 in the source's datetime, 253402300799).
MaxUtc == 2000

\* The least one (the first second of year 1, -62135596800).
MinUtc == 0 - (MaxUtc \div 4)

\* _SECONDS_IN_A_DAY (86400 in the source)
_SECONDS_IN_A_DAY == 100

\* _APPLE_TIMESTAMP_OFFSET (978307200 in the source)
_APPLE_TIMESTAMP_OFFSET == 100

\* _WEBKIT_TIMESTAMP_OFFSET (11644473600 in the source)
_WEBKIT_TIMESTAMP_OFFSET == 300

\* _UNIX_ZERO_POINT_IN_JULIAN_DAYS (2440587.5 in the source)
_UNIX_ZERO_POINT_IN_JULIAN_DAYS == 5

\* Python values: None, numbers, strings and lists.
PyNone == [type |-> "NoneType", v |-> 0, s |-> ""]
PyInt(n) == [type |-> "int", v |-> n, s |-> ""]
PyStr(s) == [type |-> "str", v |-> 0, s |-> s]
PyList == [type |-> "list", v |-> 0, s |-> ""]

\* str(value)
str(value) ==
    IF value.type = "int" THEN PyStr(ToString(value.v))
    ELSE IF value.type = "list" THEN PyStr("[]")
    ELSE IF value.type = "NoneType" THEN PyStr("None")
    ELSE value

\* The outcome of an expression: the value it returns, or what it raises.
Returned(value) == [raised |-> "", value |-> value]
Raises(exception) == [raised |-> exception, value |-> PyNone]

\* value / n for an integer n (Python 2: floor division on integers)
divided(value, n) ==
    IF value.type = "int" THEN Returned(PyInt(value.v \div n))
    ELSE Raises("TypeError")

\* value + n
plus(value, n) ==
    IF value.type = "int" THEN Returned(PyInt(value.v + n))
    ELSE Raises("TypeError")

\* (value - _UNIX_ZERO_POINT_IN_JULIAN_DAYS) * _SECONDS_IN_A_DAY
julian_seconds(value) ==
    IF value.type = "int"
    THEN Returned(PyInt((value.v - _UNIX_ZERO_POINT_IN_JULIAN_DAYS)
                            * _SECONDS_IN_A_DAY))
    ELSE Raises("TypeError")

\* dt.isoformat(), dt being the datetime of the timestamp seconds, or its
\* date
isoformat(seconds, date_only) ==
    IF date_only THEN PyStr("date " \o ToString(seconds \div _SECONDS_IN_A_DAY))
    ELSE PyStr("datetime " \o ToString(seconds))

\* datetime.datetime.utcfromtimestamp(value)
utcfromtimestamp(value) ==
    IF value.type # "int" THEN Raises("TypeError")
    ELSE IF value.v < MinUtc \/ value.v > MaxUtc THEN Raises("ValueError")
    ELSE Returned(value)

\* timestamp_transform(value, date_only)
timestamp_transform(value, date_only) ==
    IF value = PyNone THEN Returned(PyStr(""))
    ELSE IF utcfromtimestamp(value).raised \in {"TypeError", "ValueError"}
    THEN Returned(str(value))
    ELSE Returned(isoformat(value.v, date_only))

\* "return f(g(value))": what g raises goes through.
then_timestamp(outcome, date_only) ==
    IF outcome.raised # "" THEN outcome
    ELSE timestamp_transform(outcome.value, date_only)

timestamp_ms_transform(value) ==
    IF value = PyNone THEN Returned(PyStr(""))
    ELSE then_timestamp(divided(value, 1000), FALSE)

timestamp_Ms_transform(value) ==
    IF value = PyNone THEN Returned(PyStr(""))
    ELSE then_timestamp(divided(value, 1000000), FALSE)

timestamp_apple_transform(value) ==
    IF value = PyNone THEN Returned(PyStr(""))
    ELSE then_timestamp(plus(value, _APPLE_TIMESTAMP_OFFSET), FALSE)

\* value / 10 ** 6 - _WEBKIT_TIMESTAMP_OFFSET
timestamp_webkit_transform(value) ==
    IF value = PyNone THEN Returned(PyStr(""))
    ELSE IF divided(value, 1000000).raised # "" THEN divided(value, 1000000)
    ELSE then_timestamp(plus(divided(value, 1000000).value,
                             0 - _WEBKIT_TIMESTAMP_OFFSET), FALSE)

timestamp_julian_transform(value, date_only) ==
    IF value = PyNone THEN Returned(PyStr(""))
    ELSE then_timestamp(julian_seconds(value), date_only)

timestamp_julian_date_transform(value) ==
    IF value = PyNone THEN Returned(PyStr(""))
    ELSE timestamp_julian_transform(value, TRUE)

\* dt = datetime.datetime.min + datetime.timedelta(0, value);
\* dt.time().isoformat()
timestamp_midnight_transform(value) ==
    IF value = PyNone THEN Returned(PyStr(""))
    ELSE IF value.type # "int" THEN Raises("TypeError")
    ELSE IF value.v < 0 \/ value.v > MaxUtc - MinUtc
    THEN Raises("OverflowError")
    ELSE Returned(PyStr("time " \o ToString(value.v % _SECONDS_IN_A_DAY)))

\* "return timestamp_midnight_transform(value / n)"
then_midnight(outcome) ==
    IF outcome.raised # "" THEN outcome
    ELSE timestamp_midnight_transform(outcome.value)

timestamp_midnight_ms_transform(value) ==
    IF value = PyNone THEN Returned(PyStr(""))
    ELSE then_midnight(divided(value, 1000))

timestamp_midnight_Ms_transform(value) ==
    IF value = PyNone THEN Returned(PyStr(""))
    ELSE then_midnight(divided(value, 1000000))

\* The names the timestamp transformers are registered under.
TimestampNames ==
    {"timestamp", "timestamp_unix", "timestamp_ms", "timestamp_unix_ms",
     "timestamp_Ms", "timestamp_unix_Ms", "timestamp_ios", "timestamp_apple",
     "timestamp_webkit", "timestamp_julian", "timestamp_julian_date",
     "timestamp_midnight", "timestamp_midnight_ms", "timestamp_midnight_Ms"}

\* get_transformer(name)(value)
get_transformer(name, value) ==
    CASE name \in {"timestamp", "timestamp_unix"} ->
            timestamp_transform(value, FALSE)
      [] name \in {"timestamp_ms", "timestamp_unix_ms"} ->
            timestamp_ms_transform(value)
      [] name \in {"timestamp_Ms", "timestamp_unix_Ms"} ->
            timestamp_Ms_transform(value)
      [] name \in {"timestamp_ios", "timestamp_apple"} ->
            timestamp_apple_transform(value)
      [] name = "timestamp_webkit" -> timestamp_webkit_transform(value)
      [] name = "timestamp_julian" -> timestamp_julian_transform(value, FALSE)
      [] name = "timestamp_julian_date" ->
            timestamp_julian_date_transform(value)
      [] name = "timestamp_midnight" -> timestamp_midnight_transform(value)
      [] name = "timestamp_midnight_ms" ->
            timestamp_midnight_ms_transform(value)
      [] name = "timestamp_midnight_Ms" ->
            timestamp_midnight_Ms_transform(value)

\* The values a cell of a timestamp column holds: NULL, timestamps within
\* and beyond the range of datetime, and values that are no number.
TimestampValues ==
    {PyNone, PyStr("invalid string"), PyList}
        \cup {PyInt(n) : n \in {0 - 1, 0, 6, 530, MaxUtc, MaxUtc + 1,
                                 MinUtc - 1, 530 * 1000, 6 * 1000000,
                                 MaxUtc * 1000 + 1000}}

\* A cell of a timestamp column is formatted.
Transform ==
    \E name \in TimestampNames, value \in TimestampValues :
        /\ applied' = [name |-> name, value |-> value,
                       raised |-> get_transformer(name, value).raised,
                       result |-> get_transformer(name, value).value]
        /\ UNCHANGED <<gridvars, dbvars, imgvars, call>>

SpecTs == InitUpd /\ [][Transform]_vars

\* The result is a formatted date, time or datetime.
Formatted(result) ==
    /\ result.type = "str"
    /\ \E n \in MinUtc..MaxUtc :
          result.s \in {"datetime " \o ToString(n), "time " \o ToString(n),
                        "date " \o ToString(n)}

\* C20: every registered timestamp transform returns '' for None and never
\* raises: for a value it cannot convert (out of range, or of the wrong
\* type) it returns the value or its string form.
C20_TimestampTransformsNeverRaise ==
    applied.name \in TimestampNames =>
        /\ applied.raised = ""
        /\ applied.value = PyNone => applied.result = PyStr("")
        /\ (applied.value # PyNone /\ ~Formatted(applied.result))
              => applied.result \in {applied.value, str(applied.value)}

(* normalize_timestamp of utils/dateutils.py, on long values *)

\* The timestamps normalized: up to MaxNorm seconds and up to MaxNorm days
\* from the epoch, either way.
MaxNorm == 12

NormValues ==
    {n : n \in (0 - MaxNorm)..MaxNorm}
        \cup {n * _SECONDS_IN_A_DAY : n \in (0 - MaxNorm)..MaxNorm}

_base_norm(v) == v

\* v / 10 ** 3, the floor division of Python 2 on integers
_ms_norm(v) == v \div 1000
_ms_norm_inv(v) == v * 1000

_Ms_norm(v) == v \div 1000000
_Ms_norm_inv(v) == v * 1000000

_apple_norm(v) == v + _APPLE_TIMESTAMP_OFFSET
_apple_norm_inv(v) == v - _APPLE_TIMESTAMP_OFFSET

_webkit_norm(v) == _Ms_norm(v) - _WEBKIT_TIMESTAMP_OFFSET
_webkit_norm_inv(v) == _Ms_norm_inv(v + _WEBKIT_TIMESTAMP_OFFSET)

\* (v - _UNIX_ZERO_POINT_IN_JULIAN_DAYS) * _SECONDS_IN_A_DAY
_julian_norm(v) == (v - _UNIX_ZERO_POINT_IN_JULIAN_DAYS) * _SECONDS_IN_A_DAY

\* (v / _SECONDS_IN_A_DAY) + _UNIX_ZERO_POINT_IN_JULIAN_DAYS: the division
\* is the floor division of two integers, made before the float is added.
_julian_norm_inv(v) ==
    (v \div _SECONDS_IN_A_DAY) + _UNIX_ZERO_POINT_IN_JULIAN_DAYS

\* supported_timestamp_formats()
supported_timestamp_formats ==
    {"timestamp", "timestamp_unix", "timestamp_ms", "timestamp_unix_ms",
     "timestamp_Ms", "timestamp_unix_Ms", "timestamp_apple", "timestamp_ios",
     "timestamp_webkit", "timestamp_julian", "timestamp_julian_date"}

\* _normalizations[timestamp_format][pos](value)
_normalizations(timestamp_format, inverse, value) ==
    CASE timestamp_format \in {"timestamp", "timestamp_unix"} ->
            _base_norm(value)
      [] timestamp_format \in {"timestamp_ms", "timestamp_unix_ms"} ->
            IF inverse THEN _ms_norm_inv(value) ELSE _ms_norm(value)
      [] timestamp_format \in {"timestamp_Ms", "timestamp_unix_Ms"} ->
            IF inverse THEN _Ms_norm_inv(value) ELSE _Ms_norm(value)
      [] timestamp_format \in {"timestamp_apple", "timestamp_ios"} ->
            IF inverse THEN _apple_norm_inv(value) ELSE _apple_norm(value)
      [] timestamp_format = "timestamp_webkit" ->
            IF inverse THEN _webkit_norm_inv(value) ELSE _webkit_norm(value)
      [] timestamp_format \in {"timestamp_julian", "timestamp_julian_date"} ->
            IF inverse THEN _julian_norm_inv(value) ELSE _julian_norm(value)

\* normalize_timestamp(value, timestamp_format, inverse)
normalize_timestamp(value, timestamp_format, inverse) ==
    IF timestamp_format \notin supported_timestamp_formats THEN value
    ELSE _normalizations(timestamp_format, inverse, value)

\* A unix timestamp is put in the format of a column and normalized back.
Normalize ==
    \E x \in NormValues, fmt \in supported_timestamp_formats :
        /\ applied' =
             [name |-> "normalize_timestamp", format |-> fmt, value |-> x,
              inverse |-> normalize_timestamp(x, fmt, TRUE),
              result |-> normalize_timestamp(
                             normalize_timestamp(x, fmt, TRUE), fmt, FALSE)]
        /\ UNCHANGED <<gridvars, dbvars, imgvars, call>>

SpecNorm == InitUpd /\ [][Normalize]_vars

\* C21: for every supported format fmt and every value x,
\* normalize_timestamp(normalize_timestamp(x, fmt, inverse=True), fmt) is x.
C21_NormalizeRoundTrip ==
    applied.name = "normalize_timestamp" => applied.result = applied.value

(* The where dict of load() and get_all_record_ids(): one entry on the id
   column and the entry 'search' *)

\* The operators of the entries: those of _OPERATOR_MAPPER, 'range', and
\* one that is neither.
EntryOps == {"!=", ">=", "range", "like"}

\* The entry on the column, if any.
ColumnEntries ==
    {NoWhere} \cup {[operator |-> op, param |-> <<v, v + 1>>] :
                        op \in EntryOps, v \in 1..NRows}

\* value['param'] of the entry 'search'; None: the dict has no such entry.
SearchParams == {"None", "", "x"}

\* The text of a row: every other row holds an "x".
matches(i, param) == param = "" \/ (i % 2 = 1 /\ param = "x")

\* value['operator'] is 'range' or a key of _OPERATOR_MAPPER
mapped(operator) ==
    operator \in {"range", "is", "=", "!=", "<", "<=", ">", ">="}

\* a loop that skips the entry whose operator it does not know
column_clause_or_none(entry) ==
    IF entry = NoWhere \/ ~mapped(entry.operator)
    THEN [raised |-> "", ids |-> Ids]
    ELSE [raised |-> "", ids |-> _get_where_clause(entry)]

\* The clause of the entry on the column: the last two branches of the loop
\* of _get_where_clause. _OPERATOR_MAPPER[value['operator']] raises KeyError.
column_clause(entry) ==
    IF entry = NoWhere THEN [raised |-> "", ids |-> Ids]
    ELSE IF ~mapped(entry.operator) THEN [raised |-> "KeyError", ids |-> {}]
    ELSE [raised |-> "", ids |-> _get_where_clause(entry)]

\* The clause of the entry 'search': none for an empty param, the MATCH
\* subquery on search_table if there is one (fts), LIKE on every column
\* otherwise.
search_clause(param) ==
    IF param \in {"None", ""} THEN [fts |-> FALSE, ids |-> Ids]
    ELSE [fts |-> search_table, ids |-> {i \in Ids : matches(i, param)}]

\* cursor.execute(sql_str) of select() raises sqlite3.OperationalError: the
\* statement names the search table and the database has none.
no_such_table(param) == search_clause(param).fts /\ ~search_index

\* load({'where': ...}) of page 0 on a table without parent column, and
\* get_all_record_ids({'where': ...}): what is raised, the queries executed
\* (the one that raises included), the ids returned.
select_where(entry, param, limit) ==
    IF column_clause(entry).raised # ""
    THEN [raised |-> column_clause(entry).raised, queries |-> 0,
          ids |-> <<>>, count |-> None]
    ELSE IF no_such_table(param)
    THEN [raised |-> "sqlite3.OperationalError", queries |-> 1,
          ids |-> <<>>, count |-> None]
    ELSE [raised |-> "", queries |-> 2,
          ids |-> select(column_clause(entry).ids
                            \cap search_clause(param).ids, limit, 0),
          count |-> Cardinality(column_clause(entry).ids
                                   \cap search_clause(param).ids)]

\* A data source on a table without parent column, made when the database
\* had, or had not, a search index.
InitWhere ==
    /\ DbInit /\ ImgInit /\ applied = NoApplied
    /\ \E fts \in BOOLEAN : search_table = fts /\ search_index = fts
    /\ PARENT_ID_COLUMN = FALSE
    /\ CHILDREN_LEN_COLUMN = FALSE
    /\ \E n \in 0..NRows : table = PlainTable(n)
    /\ total_recs = 0
    /\ active_params = [flat |-> FALSE, where |-> NoWhere, page |-> None,
                        parent_id |-> None]
    /\ rows = NoNode
    /\ row_id_mapper = <<>>
    /\ model_total_recs = None
    /\ call = NoCall
    /\ ret = NoNode
    /\ queries = NoQueries
    /\ paging = NoPaging

wherefixed ==
    <<table, PARENT_ID_COLUMN, CHILDREN_LEN_COLUMN, active_params, rows,
      row_id_mapper, model_total_recs, ret, queries, paging, dbvars, imgvars,
      tsvars>>

\* The search index is dropped from the database under the data source.
DropSearchTable ==
    /\ search_index
    /\ search_index' = FALSE
    /\ call' = [op |-> "drop"]
    /\ UNCHANGED <<search_table, total_recs, wherefixed>>

\* load({'where': where}), page 0
LoadWhere ==
    \E entry \in ColumnEntries, param \in SearchParams :
        /\ call' = [op |-> "load", entry |-> entry, search |-> param,
                    result |-> select_where(entry, param, MAX_RECS)]
        /\ total_recs' = IF select_where(entry, param, MAX_RECS).raised = ""
                         THEN select_where(entry, param, MAX_RECS).count
                         ELSE total_recs
        /\ UNCHANGED <<ftsvars, wherefixed>>

\* get_all_record_ids({'where': where})
GetAllRecordIds ==
    \E entry \in ColumnEntries, param \in SearchParams :
        /\ call' = [op |-> "get_all_record_ids", entry |-> entry,
                    search |-> param,
                    result |-> [select_where(entry, param, NRows)
                                   EXCEPT !.queries = Min(@, 1)]]
        /\ UNCHANGED <<total_recs, ftsvars, wherefixed>>

NextWhere == DropSearchTable \/ LoadWhere \/ GetAllRecordIds

SpecWhere == InitWhere /\ [][NextWhere]_vars

\* The ids the entries of the last call select together.
Selected ==
    {i \in Ids :
        /\ call.entry = NoWhere
              \/ IF call.entry.operator = "range"
                 THEN call.entry.param[1] <= i /\ i <= call.entry.param[2]
                 ELSE _OPERATOR_MAPPER(call.entry.operator, i,
                                       call.entry.param[1])
        /\ call.search = "None" \/ matches(i, call.search)}

\* C22: load() and get_all_record_ids() given an entry whose operator is
\* neither 'range' nor one of '=', '!=', '<', '<=', '>', '>=', 'is' raise
\* before any query is executed and leave total_recs as it was; a call that
\* returns has applied every entry of the where dict: the ids it returns
\* satisfy them all.
C22_UnknownOperatorRaises ==
    [][call'.op \in {"load", "get_all_record_ids"}
       => /\ (call'.entry # NoWhere /\ ~mapped(call'.entry.operator))
                => /\ call'.result.raised = "KeyError"
                   /\ call'.result.queries = 0
                   /\ total_recs' = total_recs
          /\ (call'.entry = NoWhere \/ mapped(call'.entry.operator))
                => call'.result.raised # "KeyError"
          /\ call'.result.raised = ""
                => Range(call'.result.ids) \subseteq Selected']_vars

\* A load with an unknown operator has raised, total_recs being that of an
\* earlier load.
C22_Witness ==
    /\ call.op = "load" /\ call.entry # NoWhere
    /\ call.entry.operator = "like" /\ call.search = "x"
    /\ call.result.raised = "KeyError"
    /\ total_recs > 0

\* C23: when executing the full-text search clause raises an SQL error,
\* load() catches it and returns the rows the other entries select, as if
\* the entry 'search' were absent.
C23_SearchErrorCaught ==
    (/\ call.op = "load" /\ search_table /\ ~search_index
     /\ call.search \notin {"None", ""}
     /\ call.entry = NoWhere \/ mapped(call.entry.operator))
        => /\ call.result.raised = ""
           /\ call.result.ids
                 = select(column_clause(call.entry).ids, MAX_RECS, 0)

----------------------------------------------------------------------------
(* The load state of the Nodes between two refresh() *)

\* The ids of the rows attached to the Node at pos, in order.
children(tree, pos) ==
    [k \in 1..Len(NodeAt(tree, pos).kids) |-> NodeAt(tree, pos).kids[k].data]

\* C24: between two refresh() calls the load state of a Node only moves
\* forward: no materialized Node is removed or replaced, no Node loses a
\* child, and a fully loaded Node (len(node) == children_len) stays fully
\* loaded with the same children under add_rows(), add_rows(node), get_iter,
\* iter_rows and get_row_by_id.
C24_LoadStateMovesForward ==
    [][(Refreshed /\ call'.op # "refresh") =>
          \A pos \in Positions(rows) :
              /\ pos \in Positions(rows')
              /\ NodeAt(rows', pos).data = NodeAt(rows, pos).data
              /\ Len(NodeAt(rows', pos).kids) >= Len(NodeAt(rows, pos).kids)
              /\ is_children_loaded(NodeAt(rows, pos))
                    => /\ is_children_loaded(NodeAt(rows', pos))
                       /\ children(rows', pos) = children(rows, pos)]_vars

\* C25: in every reachable state of the model every materialized Node, at
\* any depth, has an entry in row_id_mapper under its primary key, that
\* entry is the Node itself, and the Node's path followed from the root
\* addresses that same Node.
C25_EveryNodeMapped ==
    Refreshed =>
        \A pos \in Positions(rows) :
            /\ NodeAt(rows, pos).data \in DOMAIN row_id_mapper
            /\ row_id_mapper[NodeAt(rows, pos).data] = pos
            /\ NodeAt(rows, pos).path = pos

----------------------------------------------------------------------------
(* The size of the image cache *)

\* C26: the cache dict holds at most MAX_CACHE_SIZE entries in every
\* reachable state.
C26_CacheWithinMaxSize == Cardinality(DOMAIN _cache) <= MAX_CACHE_SIZE

\* The real image of key is in the cache.
real(dict, key) ==
    _transform_image(key) # NoPixbuf /\ get(dict, key) = _transform_image(key)

\* C27: once the real image of a key is cached, and for as long as the key
\* stays in the cache, the cache holds the real image and a get_image for
\* the key returns it, never the placeholder, however the task's publish
\* step interleaves with the rest of the get_image call that queued the job.
C27_RealImageStays ==
    [][\A key \in Keys :
          real(_cache, key) =>
              /\ key \in DOMAIN _cache' => real(_cache', key)
              /\ (caller.pc = "locked" /\ caller.params = key
                     /\ caller'.pc = "idle")
                    => caller'.ret = _transform_image(key)]_vars

----------------------------------------------------------------------------
(* The task under a fair scheduler *)

\* One pass of the loop of _transform_task, but for taking the lock.
Task ==
    TaskGet \/ TaskSkip \/ TaskTransform \/ TaskDamaged \/ TaskPublish

\* The rest of a get_image call that has entered the with block.
Return ==
    \/ GetImageHit
    \/ GetImageSync
    \/ GetImageSyncDamaged
    \/ GetImageOnThread
    \/ GetImagePlaceholder
    \/ GetImageNewPlaceholder

\* The task is a daemon thread that runs for as long as the program: it
\* takes every step it can take and gets the lock if the lock is free again
\* and again; a get_image call that began returns.
SpecImgFair ==
    SpecImg /\ WF_vars(Task) /\ SF_vars(TaskLock) /\ WF_vars(Return)

\* get_image(key, load_on_thread=True) is in its with block.
requested(key) ==
    caller.pc = "locked" /\ caller.params = key /\ caller.load_on_thread

\* key is in the deque, or in the with block between its remove and append.
in_working_set(key) ==
    key \in Range(_mru) \/ (caller.pc = "locked" /\ caller.params = key)

\* C28: under a fair task thread, if a key whose transform succeeds is
\* requested with load_on_thread=True, again and again, and from some point
\* on stays in the working set, then the real image is eventually in the
\* cache - also when an earlier job of the key was skipped because the key
\* had dropped out of the working set.
C28_RealImageEventuallyCached ==
    \A key \in {k \in Keys : _transform_image(k) # NoPixbuf} :
        ([]<>requested(key) /\ <>[]in_working_set(key))
            => <>real(_cache, key)

----------------------------------------------------------------------------
(* The filtered load of any table with a parent column *)

\* The parent columns of n rows: NULL, the id of a row (of the row itself
\* or of a later one too), or the id n + 1 that no row has.
AnyParentMaps(n) == [1..n -> 0..(n + 1)]

InitTree ==
    /\ ExtInit
    /\ \E n \in 0..NRows, stored \in BOOLEAN :
          \E p \in AnyParentMaps(n) :
              /\ PARENT_ID_COLUMN = TRUE
              /\ CHILDREN_LEN_COLUMN = stored
              /\ table = FilesTable(n, p, stored)
    /\ total_recs = 0
    /\ active_params = [flat |-> FALSE, where |-> NoWhere, page |-> None,
                        parent_id |-> None]
    /\ rows = NoNode
    /\ row_id_mapper = <<>>
    /\ model_total_recs = None
    /\ call = NoCall
    /\ ret = NoNode
    /\ queries = NoQueries
    /\ paging = NoPaging

\* list(self._load_tree_rows(conn, where, order_by, None)) with a where
\* clause: the loop ran off (diverged), or it made that many Nodes with that
\* many SELECTs.
LoadTreeRows ==
    \E where \in Wheres \ {NoWhere} :
        /\ call' = [op |-> "_load_tree_rows", where |-> where,
                    diverged |-> _load_tree_rows(where, None).diverged,
                    selects |-> _load_tree_rows(where, None).selects,
                    nodes |-> Len(_load_tree_rows(where, None).nodes)]
        /\ UNCHANGED <<gridvars, dbvars, imgvars, tsvars>>

SpecTree == InitTree /\ [][LoadTreeRows]_vars

\* C29: the loop that loads the ancestors of the rows of a filtered
\* hierarchical load terminates for every finite table, also when the
\* parent id of a loaded row is the id of no row and when no loaded row has
\* a NULL parent.
C29_AncestorLoopTerminates ==
    call.op = "_load_tree_rows" => ~call.diverged

----------------------------------------------------------------------------
(* add_rows() on an empty model *)

\* C30: add_rows() with no parent, on a model that is not a tree view
\* (no parent column, or flat mode) and whose root has no rows, returns
\* False without raising and leaves the tree as it is; so the calls that
\* run it, iter_rows(load_rows=True) and get_row_by_id(load_rows=True),
\* complete normally on an empty model.
C30_AddRowsOnEmptyModel ==
    [][(Refreshed /\ ~TreeView /\ rows.kids = <<>>) =>
          /\ (call'.op = "add_rows" /\ call'.arg = NoPath)
                => call'.result = "False" /\ rows' = rows
          /\ (call'.op = "iter_rows" /\ call'.arg)
                => call'.result = "None" /\ rows' = rows
          /\ (call'.op = "get_row_by_id" /\ call'.load_rows)
                => call'.result = "None" /\ rows' = rows]_vars

====
